---- MODULE Spec2Model ----
(***************************************************************************)
(* A model of the terminal snake game of src/src/main.rs: the Snake        *)
(* entity (Snake::new, Snake::print_body), food placement (generate_food)  *)
(* and the game loop of main, with the terminal's raw-mode/cursor state.   *)
(*                                                                         *)
(* Coordinates are pairs <<x, y>>.  A Rust Option<T> is a sequence of      *)
(* length at most one: None is <<>>, Some(v) is <<v>>.                     *)
(***************************************************************************)
EXTENDS Integers, Sequences, FiniteSets, TLC

VARIABLES
    cols,           \* terminal::size().0
    rows,           \* terminal::size().1
    arrow_press,    \* main: has an arrow key been pressed yet
    snake,          \* main: Option<Snake>, a Snake is [direction, body]
    food_position,  \* main: Option<(u16, u16)>
    timer,          \* main: poll timeout in ms
    pc,             \* "loop" (top of the game loop), "poll" (waiting for input), "exited"
    raw_mode,       \* terminal: raw mode enabled
    cursor_hidden,  \* terminal: cursor hidden
    exit_kind,      \* "none", "quit", "game_over", "panic", "io_error"
    exit_code,      \* the process's exit status, -1 while it runs
    panic_msg,      \* the message of the panic that ended the process, "" if none
    new_head,       \* print_body: the new head computed by the last step (Option)
    grew,           \* print_body: did the last step eat the food
    new_food_pos,   \* main: what the last print_body returned (Option)
    code,           \* main: the key read by the last poll (Option), None on a timeout
    step_direction, \* print_body: the direction the last step matched on (Option)
    drawn_snake,    \* terminal: the snake cells drawn since the last clear, [pos, ch]
    drawn_food      \* terminal: the food cell drawn since the last clear (Option)

vars == <<cols, rows, arrow_press, snake, food_position, timer, pc, raw_mode,
          cursor_hidden, exit_kind, exit_code, panic_msg, new_head, grew,
          new_food_pos, code, step_direction, drawn_snake, drawn_food>>

\* ---------------------------------------------------------------- bounds
\* Boards of at most MaxCells cells are explored (every cols x rows with
\* cols * rows <= MaxCells), plus one long strip of LongCols x 1 cells.
MaxCells == 9

LongCols == 25

\* ------------------------------------------------------- program constants
InitialTimer == 500

TimerFloor == 50

TimerStep == 20

\* ------------------------------------------------------------------ Option
None == <<>>

Some(v) == <<v>>

IsSome(o) == o # <<>>

Unwrap(o) == o[1]

\* --------------------------------------------------------------- Direction
SnakeDirection == {"Up", "Down", "Left", "Right"}

\* ------------------------------------------------------------------- Snake
\* SnakeNew starting in the corner instead of the centre.
SnakeNewAtOrigin(c, r, initial_direction) ==
    [direction |-> initial_direction, body |-> << <<0, 0>> >>]

\* Snake::new: one body point at the centre of the board.
SnakeNew(c, r, initial_direction) ==
    [direction |-> initial_direction, body |-> << <<c \div 2, r \div 2>> >>]

\* MoveHead with the modulo of the Down arm left out.
MoveHeadDownUnwrapped(head, direction, c, r) ==
    CASE direction = "Up" ->
            IF head[2] = 0 THEN <<head[1], r - 1>> ELSE <<head[1], head[2] - 1>>
      [] direction = "Down" -> <<head[1], head[2] + 1>>
      [] direction = "Left" ->
            IF head[1] = 0 THEN <<c - 1, head[2]>> ELSE <<head[1] - 1, head[2]>>
      [] direction = "Right" -> <<(head[1] + 1) % c, head[2]>>

\* MoveHead wrapping Left from column 0 to column c instead of c - 1.
MoveHeadLeftWrapsToCols(head, direction, c, r) ==
    CASE direction = "Up" ->
            IF head[2] = 0 THEN <<head[1], r - 1>> ELSE <<head[1], head[2] - 1>>
      [] direction = "Down" -> <<head[1], (head[2] + 1) % r>>
      [] direction = "Left" ->
            IF head[1] = 0 THEN <<c, head[2]>> ELSE <<head[1] - 1, head[2]>>
      [] direction = "Right" -> <<(head[1] + 1) % c, head[2]>>

\* print_body, lines 48-71: the new head, one cell further in the current
\* direction, wrapping at the edges.
MoveHead(head, direction, c, r) ==
    CASE direction = "Up" ->
            IF head[2] = 0 THEN <<head[1], r - 1>> ELSE <<head[1], head[2] - 1>>
      [] direction = "Down" -> <<head[1], (head[2] + 1) % r>>
      [] direction = "Left" ->
            IF head[1] = 0 THEN <<c - 1, head[2]>> ELSE <<head[1] - 1, head[2]>>
      [] direction = "Right" -> <<(head[1] + 1) % c, head[2]>>

\* body.iter().any(|segment| segment.x == p.x && segment.y == p.y)
BodyHas(body, p) ==
    \E i \in 1..Len(body) : body[i][1] = p[1] /\ body[i][2] = p[2]

\* Collides with the tail left out of the scan, as if it had been popped first.
CollidesSkipTail(body, nh) ==
    \E i \in 1..(Len(body) - 1) : body[i][1] = nh[1] /\ body[i][2] = nh[2]

\* Collides testing the head alone instead of scanning the body.
CollidesHeadOnly(body, nh) ==
    body[1][1] = nh[1] /\ body[1][2] = nh[2]

\* print_body, lines 74-77: the collision test, on the body before the step.
Collides(body, nh) == BodyHas(body, nh)

\* Grew comparing the head with the food's coordinates swapped.
GrewSwapped(food, nh) ==
    IsSome(food) /\ nh[1] = Unwrap(food)[2] /\ nh[2] = Unwrap(food)[1]

\* print_body, lines 89-93: grew.
Grew(food, nh) ==
    IsSome(food) /\ nh[1] = Unwrap(food)[1] /\ nh[2] = Unwrap(food)[2]

\* ShiftBody popping the tail whether or not the food was eaten.
ShiftBodyAlwaysPop(body, nh, g) ==
    SubSeq(<<nh>> \o body, 1, Len(body))

\* ShiftBody popping the tail without having inserted the new head.
ShiftBodyPopOnly(body, nh, g) ==
    IF g THEN <<nh>> \o body ELSE SubSeq(body, 1, Len(body) - 1)

\* print_body, lines 85-97: insert the new head at the front; pop the tail
\* unless the food was eaten.
ShiftBody(body, nh, g) ==
    LET inserted == <<nh>> \o body
    IN  IF g THEN inserted ELSE SubSeq(inserted, 1, Len(inserted) - 1)

\* ----------------------------------------------------------- generate_food
\* Lines 138-144 visit the cells x-major; the k-th cell visited (from 0).
CellAt(k, r) == <<k \div r, k % r>>

AllCells(c, r) == [k \in 1..(c * r) |-> CellAt(k - 1, r)]

\* available_positions scanning the body without its head.
available_positions_skip_head(c, r, snake_body) ==
    SelectSeq(AllCells(c, r), LAMBDA p : ~BodyHas(Tail(snake_body), p))

\* Lines 136-144: the cells no body point occupies, in visiting order.
available_positions(c, r, snake_body) ==
    SelectSeq(AllCells(c, r), LAMBDA p : ~BodyHas(snake_body, p))

\* What a call does: it panics with a message, or returns a value.
Panics(msg) == [panic |-> msg, value |-> None]

Returns(v) == [panic |-> "", value |-> v]

\* generate_food returning None, instead of panicking, when no cell is free.
generate_food_none_when_full(c, r, snake_body) ==
    LET avail == available_positions(c, r, snake_body)
    IN  IF snake_body = <<>>
           THEN {Panics("The game ended on perfect score")}
           ELSE IF Len(avail) = 0
                   THEN {Returns(None)}
                   ELSE {Returns(Some(avail[i + 1])) : i \in 0..(Len(avail) - 1)}

\* Lines 135-152: the possible results of a call.  The explicit panic fires
\* on an empty body (lines 146-148); random_range panics on the empty range
\* 0..0 (line 151); otherwise Some(available_positions[i]), i random.
generate_food(c, r, snake_body) ==
    LET avail == available_positions(c, r, snake_body)
    IN  IF snake_body = <<>>
           THEN {Panics("The game ended on perfect score")}
           ELSE IF Len(avail) = 0
                   THEN {Panics("cannot sample empty range")}
                   ELSE {Returns(Some(avail[i + 1])) : i \in 0..(Len(avail) - 1)}

\* -------------------------------------------------------------- print_body
\* Lines 102-120: the glyph of segment i.
Glyph(body, direction, i) ==
    IF i = 1
       THEN CASE direction = "Up" -> "^"
              [] direction = "Down" -> "v"
              [] direction = "Left" -> "<"
              [] direction = "Right" -> ">"
       ELSE IF body[i][1] = body[i - 1][1]
               THEN "|"
               ELSE IF body[i][2] = body[i - 1][2] THEN "-" ELSE "s"

\* RenderSnake with the loop stopping one segment short of the tail.
RenderSnakeShort(body, direction) ==
    [i \in 1..(Len(body) - 1) |-> [pos |-> body[i], ch |-> Glyph(body, direction, i)]]

\* Lines 99-125: what the render loop draws, one glyph per segment of the
\* body after the shift, each at the segment's coordinate.
RenderSnake(body, direction) ==
    [i \in 1..Len(body) |-> [pos |-> body[i], ch |-> Glyph(body, direction, i)]]

\* Lines 41-132: the possible outcomes of one step of snake s with the food
\* at `food`: the process exits on a collision ("game_over"), the food
\* placement panics ("panic"), or the step returns `ret` ("ok").
print_body(s, food, c, r) ==
    LET nh == MoveHead(s.body[1], s.direction, c, r)
        g == Grew(food, nh)
        body2 == ShiftBody(s.body, nh, g)
    IN  IF Collides(s.body, nh)
           THEN {[kind |-> "game_over", body |-> s.body, new_head |-> nh,
                  grew |-> FALSE, panic |-> "", ret |-> None]}
           ELSE IF g
                   THEN {[kind |-> IF gf.panic # "" THEN "panic" ELSE "ok",
                          body |-> body2, new_head |-> nh, grew |-> TRUE,
                          panic |-> gf.panic, ret |-> gf.value] :
                            gf \in generate_food(c, r, body2)}
                   ELSE {[kind |-> "ok", body |-> body2, new_head |-> nh,
                          grew |-> FALSE, panic |-> "", ret |-> food]}

\* -------------------------------------------------------------------- main
\* NextTimer without the test that the food has changed.
NextTimerEveryTick(t, nfp, food) ==
    IF t > TimerFloor THEN t - TimerStep ELSE t

\* Lines 192-199: the timer after a step that returned Some(nfp).
NextTimer(t, nfp, food) ==
    IF nfp # food /\ t > TimerFloor THEN t - TimerStep ELSE t

\* Lines 227, 238, 249, 260: the direction an arrow key must not reverse.
Opposite(d) ==
    CASE d = "Left" -> "Right"
      [] d = "Right" -> "Left"
      [] d = "Up" -> "Down"
      [] d = "Down" -> "Up"

\* Turn without the test against the opposite direction.
TurnUnguarded(current, pressed) == pressed

\* Lines 226-230 (and the three like them): the direction after a key.
Turn(current, pressed) ==
    IF current # Opposite(pressed) THEN pressed ELSE current

\* terminal::size(), line 172: the boards explored.
Boards ==
    {b \in (1..MaxCells) \X (1..MaxCells) : b[1] * b[2] <= MaxCells}
        \cup {<<LongCols, 1>>}

\* Lines 163-175: the panic hook is set, raw mode is on, the cursor hidden,
\* the board is the terminal's size, there is no snake and no food.
Init ==
    /\ \E b \in Boards : cols = b[1] /\ rows = b[2]
    /\ arrow_press = FALSE
    /\ snake = None
    /\ food_position = None
    /\ timer = InitialTimer
    /\ pc = "loop"
    /\ raw_mode = TRUE
    /\ cursor_hidden = TRUE
    /\ exit_kind = "none"
    /\ exit_code = -1
    /\ panic_msg = ""
    /\ new_head = None
    /\ grew = FALSE
    /\ new_food_pos = None
    /\ code = None
    /\ step_direction = None
    /\ drawn_snake = <<>>
    /\ drawn_food = None

\* disable_game_mode, lines 284-292: raw mode off, cursor shown, screen cleared.
disable_game_mode ==
    /\ raw_mode' = FALSE
    /\ cursor_hidden' = FALSE
    /\ drawn_snake' = <<>>
    /\ drawn_food' = None

\* setup_panic_hook, lines 294-300: what the hook does when a panic unwinds.
panic_hook ==
    /\ raw_mode' = FALSE
    /\ cursor_hidden' = FALSE

\* Lines 180-186, 210: one loop iteration before the first arrow key.
DrawStartText ==
    /\ pc = "loop"
    /\ arrow_press = FALSE
    /\ drawn_snake' = <<>>
    /\ drawn_food' = None
    /\ pc' = "poll"
    /\ UNCHANGED <<cols, rows, arrow_press, snake, food_position, timer, raw_mode,
                   cursor_hidden, exit_kind, exit_code, panic_msg, new_head, grew,
                   new_food_pos, code, step_direction>>

\* TickGameOver exiting with status 1 instead of 0.
TickGameOverStatus1 ==
    /\ pc = "loop"
    /\ arrow_press
    /\ IsSome(snake)
    /\ \E o \in print_body(Unwrap(snake), food_position, cols, rows) :
          /\ o.kind = "game_over"
          /\ new_head' = Some(o.new_head)
    /\ step_direction' = Some(Unwrap(snake).direction)
    /\ disable_game_mode
    /\ pc' = "exited"
    /\ exit_kind' = "game_over"
    /\ exit_code' = 1
    /\ UNCHANGED <<cols, rows, arrow_press, snake, food_position, timer, panic_msg,
                   grew, new_food_pos, code>>

\* Lines 187-190 with print_body lines 48-82: the new head hits the body; the
\* process exits with status 0 after disable_game_mode.
TickGameOver ==
    /\ pc = "loop"
    /\ arrow_press
    /\ IsSome(snake)
    /\ \E o \in print_body(Unwrap(snake), food_position, cols, rows) :
          /\ o.kind = "game_over"
          /\ new_head' = Some(o.new_head)
    /\ step_direction' = Some(Unwrap(snake).direction)
    /\ disable_game_mode
    /\ pc' = "exited"
    /\ exit_kind' = "game_over"
    /\ exit_code' = 0
    /\ UNCHANGED <<cols, rows, arrow_press, snake, food_position, timer, panic_msg,
                   grew, new_food_pos, code>>

\* TickStep without the lazy placement of line 207.
TickStepNoLazyFood ==
    /\ pc = "loop"
    /\ arrow_press
    /\ IsSome(snake)
    /\ \E o \in print_body(Unwrap(snake), food_position, cols, rows) :
          /\ o.kind = "ok"
          /\ snake' = Some([Unwrap(snake) EXCEPT !.body = o.body])
          /\ new_head' = Some(o.new_head)
          /\ grew' = o.grew
          /\ drawn_snake' = RenderSnake(o.body, Unwrap(snake).direction)
          /\ new_food_pos' = o.ret
          /\ IF IsSome(o.ret)
                THEN /\ timer' = NextTimer(timer, o.ret, food_position)
                     /\ food_position' = o.ret
                     /\ drawn_food' = o.ret
                ELSE /\ timer' = timer
                     /\ drawn_food' = None
                     /\ food_position' = None
    /\ step_direction' = Some(Unwrap(snake).direction)
    /\ pc' = "poll"
    /\ UNCHANGED <<cols, rows, arrow_press, raw_mode, cursor_hidden, exit_kind,
                   exit_code, panic_msg, code>>

\* Lines 187-210: print_body returns; the timer and the food are updated
\* (lines 192-199), the food is drawn or, when there is none, placed (lines
\* 202-208), and the loop goes on to poll for input.
TickStep ==
    /\ pc = "loop"
    /\ arrow_press
    /\ IsSome(snake)
    /\ \E o \in print_body(Unwrap(snake), food_position, cols, rows) :
          /\ o.kind = "ok"
          /\ snake' = Some([Unwrap(snake) EXCEPT !.body = o.body])
          /\ new_head' = Some(o.new_head)
          /\ grew' = o.grew
          /\ drawn_snake' = RenderSnake(o.body, Unwrap(snake).direction)
          /\ new_food_pos' = o.ret
          /\ IF IsSome(o.ret)
                THEN /\ timer' = NextTimer(timer, o.ret, food_position)
                     /\ food_position' = o.ret
                     /\ drawn_food' = o.ret
                ELSE /\ timer' = timer
                     /\ drawn_food' = None
                     /\ \E gf \in generate_food(cols, rows, o.body) :
                           /\ gf.panic = ""
                           /\ food_position' = gf.value
    /\ step_direction' = Some(Unwrap(snake).direction)
    /\ pc' = "poll"
    /\ UNCHANGED <<cols, rows, arrow_press, raw_mode, cursor_hidden, exit_kind,
                   exit_code, panic_msg, code>>

\* Lines 128 and 207 with generate_food lines 146-151: food placement panics,
\* inside print_body or in main's lazy placement; the panic hook runs and the
\* process ends with status 101.
TickPanic ==
    /\ pc = "loop"
    /\ arrow_press
    /\ IsSome(snake)
    /\ \E o \in print_body(Unwrap(snake), food_position, cols, rows) :
          /\ \/ /\ o.kind = "panic"
                /\ panic_msg' = o.panic
                /\ UNCHANGED <<food_position, new_food_pos>>
             \/ /\ o.kind = "ok"
                /\ ~IsSome(o.ret)
                /\ \E gf \in generate_food(cols, rows, o.body) :
                      /\ gf.panic # ""
                      /\ panic_msg' = gf.panic
                /\ new_food_pos' = o.ret
                /\ food_position' = None
          /\ snake' = Some([Unwrap(snake) EXCEPT !.body = o.body])
          /\ new_head' = Some(o.new_head)
          /\ grew' = o.grew
          /\ drawn_snake' = RenderSnake(o.body, Unwrap(snake).direction)
          /\ drawn_food' = None
    /\ step_direction' = Some(Unwrap(snake).direction)
    /\ panic_hook
    /\ pc' = "exited"
    /\ exit_kind' = "panic"
    /\ exit_code' = 101
    /\ UNCHANGED <<cols, rows, arrow_press, timer, code>>

\* Line 213: the poll times out, or the event read is no key event, or the
\* key is none of those matched (line 265).
PollNoKey ==
    /\ pc = "poll"
    /\ code' = None
    /\ pc' = "loop"
    /\ UNCHANGED <<cols, rows, arrow_press, snake, food_position, timer, raw_mode,
                   cursor_hidden, exit_kind, exit_code, panic_msg, new_head, grew,
                   new_food_pos, step_direction, drawn_snake, drawn_food>>

\* Lines 219-220 and 271: 'q' or Ctrl+C breaks the loop; main returns the
\* result of disable_game_mode.
KeyQuit ==
    /\ pc = "poll"
    /\ code' \in {Some("q"), Some("Ctrl+c")}
    /\ disable_game_mode
    /\ pc' = "exited"
    /\ exit_kind' = "quit"
    /\ exit_code' = 0
    /\ UNCHANGED <<cols, rows, arrow_press, snake, food_position, timer, panic_msg,
                   new_head, grew, new_food_pos, step_direction>>

\* KeyArrow polling again after the key instead of going round the loop.
KeyArrowPollsAgain(pressed) ==
    /\ pc = "poll"
    /\ code' = Some(pressed)
    /\ arrow_press' = TRUE
    /\ LET s == IF arrow_press = FALSE
                   THEN Some(SnakeNew(cols, rows, pressed))
                   ELSE snake
       IN  snake' = IF IsSome(s)
                       THEN Some([Unwrap(s) EXCEPT
                                    !.direction = Turn(Unwrap(s).direction, pressed)])
                       ELSE s
    /\ pc' = "poll"
    /\ UNCHANGED <<cols, rows, food_position, timer, raw_mode, cursor_hidden,
                   exit_kind, exit_code, panic_msg, new_head, grew, new_food_pos,
                   step_direction, drawn_snake, drawn_food>>

\* Lines 221-264: an arrow key.  The first one creates the snake.
KeyArrow(pressed) ==
    /\ pc = "poll"
    /\ code' = Some(pressed)
    /\ arrow_press' = TRUE
    /\ LET s == IF arrow_press = FALSE
                   THEN Some(SnakeNew(cols, rows, pressed))
                   ELSE snake
       IN  snake' = IF IsSome(s)
                       THEN Some([Unwrap(s) EXCEPT
                                    !.direction = Turn(Unwrap(s).direction, pressed)])
                       ELSE s
    /\ pc' = "loop"
    /\ UNCHANGED <<cols, rows, food_position, timer, raw_mode, cursor_hidden,
                   exit_kind, exit_code, panic_msg, new_head, grew, new_food_pos,
                   step_direction, drawn_snake, drawn_food>>

\* Lines 221-231.
KeyLeft == KeyArrow("Left")

\* Lines 232-242.
KeyRight == KeyArrow("Right")

\* Lines 243-253.
KeyUp == KeyArrow("Up")

\* Lines 254-264.
KeyDown == KeyArrow("Down")

\* Any `?` of main's loop (lines 180-216): a terminal operation fails and the
\* error is returned from main; nothing on that path restores the terminal.
IoError ==
    /\ pc \in {"loop", "poll"}
    /\ pc' = "exited"
    /\ exit_kind' = "io_error"
    /\ exit_code' = 1
    /\ UNCHANGED <<cols, rows, arrow_press, snake, food_position, timer, raw_mode,
                   cursor_hidden, panic_msg, new_head, grew, new_food_pos, code,
                   step_direction, drawn_snake, drawn_food>>

\* One iteration of the loop up to the poll, when a snake exists.
Tick == TickGameOver \/ TickStep \/ TickPanic

Next ==
    \/ DrawStartText
    \/ TickGameOver
    \/ TickStep
    \/ TickPanic
    \/ PollNoKey
    \/ KeyQuit
    \/ KeyLeft
    \/ KeyRight
    \/ KeyUp
    \/ KeyDown
    \/ IoError

Spec == Init /\ [][Next]_vars

\* ======================================================== properties
\* Shorthands the properties use.
TheBody == Unwrap(snake).body

TheHead == Unwrap(snake).body[1]

TheDirection == Unwrap(snake).direction

\* The cells of a body, as a set.
Cells(body) == {body[i] : i \in 1..Len(body)}

\* Every cell of a c x r board.
Board(c, r) == (0..(c - 1)) \X (0..(r - 1))

\* The cell one step from h in direction d on a c x r torus, stated with
\* modular arithmetic.
Neighbour(h, d, c, r) ==
    CASE d = "Up" -> <<h[1], (h[2] + r - 1) % r>>
      [] d = "Down" -> <<h[1], (h[2] + 1) % r>>
      [] d = "Left" -> <<(h[1] + c - 1) % c, h[2]>>
      [] d = "Right" -> <<(h[1] + 1) % c, h[2]>>

\* C1: in every reachable state the tick duration is at least the floor of
\* 50 ms.  (Violated: from 60 ms the guard `timer > 50` lets the 23rd food
\* take it to 40 ms.)
C1_TimerNeverBelowFloor == timer >= TimerFloor

\* C2: whenever the process has ended, on any exit path, raw mode is
\* disabled and the cursor is shown.  (Violated on the I/O error path.)
C2_TerminalRestoredOnEveryExit ==
    pc = "exited" => (~raw_mode /\ ~cursor_hidden)

\* C3 as stated: a step whose new head is on a body cell (of the body before
\* the step) ends the game and no step follows; a step whose new head is on
\* no body cell leaves the game in Playing.
C3_CollisionIffTerminated ==
    [][/\ Tick =>
            LET nh == Neighbour(TheHead, TheDirection, cols, rows)
            IN  IF nh \in Cells(TheBody)
                   THEN pc' = "exited" /\ exit_kind' = "game_over" /\ snake' = snake
                   ELSE pc' = "poll" /\ exit_kind' = "none"
       /\ pc = "exited" => UNCHANGED vars]_vars

\* C3 as amended: as above, except that a step which hits nothing and eats
\* the food on the last free cell ends the process by the food placement's
\* panic.
C3_CollisionTerminates ==
    [][/\ Tick =>
            LET nh == Neighbour(TheHead, TheDirection, cols, rows)
                full == food_position = Some(nh)
                            /\ Cardinality(Cells(TheBody)) + 1 = cols * rows
            IN  IF nh \in Cells(TheBody)
                   THEN pc' = "exited" /\ exit_kind' = "game_over" /\ snake' = snake
                   ELSE IF full
                           THEN pc' = "exited" /\ exit_kind' = "panic"
                           ELSE pc' = "poll" /\ exit_kind' = "none"
       /\ pc = "exited" => UNCHANGED vars]_vars

\* A game over on a step whose new head is the cell of the current tail.
C3_Witness ==
    /\ exit_kind = "game_over"
    /\ Len(TheBody) >= 4
    /\ Unwrap(new_head) = TheBody[Len(TheBody)]

\* The direction opposite to d.
Reverse(d) ==
    CASE d = "Left" -> "Right"
      [] d = "Right" -> "Left"
      [] d = "Up" -> "Down"
      [] d = "Down" -> "Up"

\* C4: an arrow key opposite to the snake's direction leaves the direction
\* unchanged, any other arrow key sets it to the pressed one (the first key
\* creates the snake with it), no key moves the body, and the step after the
\* key moves the head one cell in the direction the key left.
C4_ReverseIgnored ==
    [][/\ \A d \in SnakeDirection :
            KeyArrow(d) =>
                /\ IsSome(snake')
                /\ Unwrap(snake').direction =
                      IF IsSome(snake) /\ TheDirection = Reverse(d)
                         THEN TheDirection
                         ELSE d
                /\ IsSome(snake) => Unwrap(snake').body = TheBody
       /\ (Tick /\ IsSome(code)) =>
            /\ new_head' = Some(Neighbour(TheHead, TheDirection, cols, rows))
            /\ Unwrap(snake').direction = TheDirection]_vars

\* Left was pressed while a snake of length 3 moved Right along a row, and
\* the next step has moved it one more cell to the right.
C4_Witness ==
    /\ pc = "poll"
    /\ IsSome(snake)
    /\ code = Some("Left")
    /\ TheDirection = "Right"
    /\ cols >= 4
    /\ TheBody = << <<3, TheHead[2]>>, <<2, TheHead[2]>>, <<1, TheHead[2]>> >>

\* The cells the body occupies after a step to nh that hits nothing.
CellsAfter(body, nh, eats) ==
    IF eats
       THEN Cells(body) \cup {nh}
       ELSE {nh} \cup {body[i] : i \in 1..(Len(body) - 1)}

\* C5: when a tick has just placed food (print_body regenerated it after the
\* snake ate, or returned none and main placed it), the food is a cell of the
\* board that no body segment occupies; and when the coming tick is to place
\* food, every cell that will then be free can be the one chosen.
C5_FoodOnFreeCell ==
    /\ (pc = "poll" /\ IsSome(snake) /\ (grew \/ new_food_pos = None)) =>
            /\ IsSome(food_position)
            /\ Unwrap(food_position) \in Board(cols, rows) \ Cells(TheBody)
    /\ (pc = "loop" /\ IsSome(snake)) =>
            LET nh == Neighbour(TheHead, TheDirection, cols, rows)
                eats == food_position = Some(nh)
            IN  (nh \notin Cells(TheBody) /\ (eats \/ food_position = None)) =>
                    \A cell \in Board(cols, rows) \ CellsAfter(TheBody, nh, eats) :
                        ENABLED (TickStep /\ food_position' = Some(cell))

\* The snake has just eaten and the new food is on a free cell, with other
\* free cells left.
C5_Witness ==
    /\ pc = "poll"
    /\ grew
    /\ IsSome(food_position)
    /\ Unwrap(food_position) \notin Cells(TheBody)
    /\ Len(TheBody) + 2 <= cols * rows
    /\ rows >= 2

\* C6: a step that returns lengthens the body by one when the new head is on
\* the food and leaves its length alone otherwise; the new head is in front
\* and the old segments follow in order; and no action shortens the body.
C6_LengthGrowsOnFood ==
    [][/\ TickStep =>
            LET nh == Neighbour(TheHead, TheDirection, cols, rows)
                body2 == Unwrap(snake').body
            IN  /\ Len(body2) = Len(TheBody) + (IF food_position = Some(nh) THEN 1 ELSE 0)
                /\ body2[1] = nh
                /\ \A i \in 2..Len(body2) : body2[i] = TheBody[i - 1]
       /\ IsSome(snake) =>
            /\ IsSome(snake')
            /\ Len(Unwrap(snake').body) >= Len(TheBody)]_vars

\* A snake of three or more segments that has just eaten.
C6_Witness ==
    /\ pc = "poll"
    /\ grew
    /\ Len(TheBody) >= 3
    /\ cols >= 2
    /\ rows >= 2

\* C7: on a board of at least 2 x 2, a step that returns puts the head one
\* cell further in the current direction, from an edge onto the opposite
\* edge, and leaves the other coordinate alone.
C7_WrapAtEdges ==
    [][(TickStep /\ cols >= 2 /\ rows >= 2) =>
            LET h == TheHead
                h2 == Unwrap(snake').body[1]
            IN  /\ TheDirection = "Right" =>
                      h2 = <<IF h[1] = cols - 1 THEN 0 ELSE h[1] + 1, h[2]>>
                /\ TheDirection = "Left" =>
                      h2 = <<IF h[1] = 0 THEN cols - 1 ELSE h[1] - 1, h[2]>>
                /\ TheDirection = "Down" =>
                      h2 = <<h[1], IF h[2] = rows - 1 THEN 0 ELSE h[2] + 1>>
                /\ TheDirection = "Up" =>
                      h2 = <<h[1], IF h[2] = 0 THEN rows - 1 ELSE h[2] - 1>>]_vars

\* On a board three rows high the head has just wrapped from the bottom row
\* to the top row.
C7_Witness ==
    /\ pc = "poll"
    /\ IsSome(snake)
    /\ cols >= 2
    /\ rows >= 3
    /\ TheDirection = "Down"
    /\ Len(TheBody) >= 2
    /\ TheHead[2] = 0
    /\ TheBody[2] = <<TheHead[1], rows - 1>>

\* C8: in every reachable state the coordinates of the body are pairwise
\* distinct.
C8_BodyDistinct ==
    IsSome(snake) =>
        \A i, j \in 1..Len(TheBody) : i # j => TheBody[i] # TheBody[j]

\* A snake of five or more segments on a board with turns.
C8_Witness ==
    /\ pc = "poll"
    /\ IsSome(snake)
    /\ Len(TheBody) >= 5
    /\ cols >= 2
    /\ rows >= 2

\* The step to nh hits nothing and eats the food.
Eats(body, nh, food) == nh \notin Cells(body) /\ food = Some(nh)

\* C9 as stated: a tick on which the snake eats takes 20 ms off the tick
\* duration (while it is above the floor) and places new food on a cell that
\* is neither the eaten food nor a body cell; any other tick leaves the
\* duration alone.
C9_EatingSpeedsUp ==
    [][Tick =>
        LET nh == Neighbour(TheHead, TheDirection, cols, rows)
        IN  IF Eats(TheBody, nh, food_position)
               THEN /\ timer > TimerFloor => timer' = timer - TimerStep
                    /\ IsSome(food_position')
                    /\ food_position' # food_position
                    /\ Unwrap(food_position') \notin Cells(Unwrap(snake').body)
               ELSE timer' = timer]_vars

\* C9 as amended: as above for a tick on which the snake eats and a free cell
\* is left; when the snake eats the food on the last free cell the placement
\* panics, and neither the duration nor the food changes.
C9_EatingSpeedsUpWhileRoom ==
    [][Tick =>
        LET nh == Neighbour(TheHead, TheDirection, cols, rows)
        IN  IF Eats(TheBody, nh, food_position)
               THEN IF Len(TheBody) + 1 < cols * rows
                       THEN /\ timer > TimerFloor => timer' = timer - TimerStep
                            /\ IsSome(food_position')
                            /\ food_position' # food_position
                            /\ Unwrap(food_position') \notin Cells(Unwrap(snake').body)
                       ELSE /\ exit_kind' = "panic"
                            /\ timer' = timer
                            /\ food_position' = food_position
               ELSE timer' = timer]_vars

\* The first food has just been eaten: length 2, 480 ms, new food elsewhere.
C9_Witness ==
    /\ pc = "poll"
    /\ grew
    /\ Len(TheBody) = 2
    /\ timer = InitialTimer - TimerStep
    /\ IsSome(food_position)
    /\ Unwrap(food_position) \notin Cells(TheBody)
    /\ cols * rows >= 9

\* C10 as stated: a step after which the snake occupies every cell returns,
\* and returns none.
C10_FullBoardReturnsNone ==
    [][Tick =>
        LET nh == Neighbour(TheHead, TheDirection, cols, rows)
        IN  (Eats(TheBody, nh, food_position) /\ Len(TheBody) + 1 = cols * rows) =>
                /\ pc' = "poll"
                /\ new_food_pos' = None]_vars

\* C10 as amended: a step after which the snake occupies every cell does not
\* return: the food placement panics (sampling an empty range), the panic
\* hook runs and the process ends; nothing is returned to main.
C10_FullBoardPanics ==
    [][Tick =>
        LET nh == Neighbour(TheHead, TheDirection, cols, rows)
        IN  (Eats(TheBody, nh, food_position) /\ Len(TheBody) + 1 = cols * rows) =>
                /\ pc' = "exited"
                /\ exit_kind' = "panic"
                /\ panic_msg' = "cannot sample empty range"
                /\ Cells(Unwrap(snake').body) = Board(cols, rows)
                /\ new_food_pos' = new_food_pos
                /\ food_position' = food_position]_vars

\* The process has ended by a panic with the snake on every cell of a board
\* of at least four cells.
C10_Witness ==
    /\ exit_kind = "panic"
    /\ Cells(TheBody) = Board(cols, rows)
    /\ cols * rows >= 4
    /\ rows >= 2

\* The coordinates drawn for the snake since the last clear, in drawing order.
DrawnCoordinates == [i \in 1..Len(drawn_snake) |-> drawn_snake[i].pos]

\* C11 as stated: at every input poll during Playing the tick's rendering is
\* the state at the poll: the body segments are drawn at their coordinates,
\* and a food coordinate that exists has been drawn.
C11_RenderMatchesState ==
    (pc = "poll" /\ IsSome(snake)) =>
        /\ DrawnCoordinates = TheBody
        /\ IsSome(food_position) => drawn_food = food_position

\* C11 as amended: as above, except on the tick on which main places the food
\* lazily (print_body returned none): that food exists at the poll but is not
\* drawn until the next tick.
C11_RenderMatchesStateButLazyFood ==
    (pc = "poll" /\ IsSome(snake)) =>
        /\ DrawnCoordinates = TheBody
        /\ drawn_snake[1].ch =
              (CASE TheDirection = "Up" -> "^" [] TheDirection = "Down" -> "v"
                 [] TheDirection = "Left" -> "<" [] TheDirection = "Right" -> ">")
        /\ IF IsSome(new_food_pos)
              THEN drawn_food = food_position /\ IsSome(food_position)
              ELSE drawn_food = None /\ IsSome(food_position)

\* A poll after a tick that drew a snake of three segments and the food.
C11_Witness ==
    /\ pc = "poll"
    /\ IsSome(snake)
    /\ Len(drawn_snake) = 3
    /\ IsSome(drawn_food)
    /\ drawn_food = food_position
    /\ rows >= 2
    /\ cols >= 2

\* The game state a timeout must leave alone.
game_state == <<arrow_press, snake, food_position, timer, new_head, grew,
                new_food_pos, step_direction>>

\* C12: before the first arrow key there is no snake and no food and no step
\* is taken, and a timeout or a key that is neither an arrow nor a quit key
\* changes nothing; the first arrow key starts Playing with a snake of one
\* segment at (cols/2, rows/2) heading the way pressed, and still no food; the
\* food is first created by the first Playing tick, if that tick returns.
C12_AwaitingFirstInput ==
    [][/\ ~arrow_press =>
            /\ snake = None
            /\ food_position = None
            /\ step_direction = None
            /\ ~Tick
            /\ (PollNoKey \/ DrawStartText) => UNCHANGED game_state
            /\ \A d \in SnakeDirection :
                  KeyArrow(d) =>
                      /\ arrow_press'
                      /\ snake' = Some([direction |-> d,
                                        body |-> << <<cols \div 2, rows \div 2>> >>])
                      /\ food_position' = None
                      /\ step_direction' = None
       /\ (TickStep /\ step_direction = None) => IsSome(food_position')
       /\ (food_position = None /\ IsSome(food_position')) =>
            TickStep /\ step_direction = None]_vars

\* Right after the first arrow key on a 3 x 3 board: a snake of one segment
\* in the centre, no food, no step taken yet.
C12_Witness ==
    /\ pc = "loop"
    /\ arrow_press
    /\ cols = 3
    /\ rows = 3
    /\ snake = Some([direction |-> "Up", body |-> << <<1, 1>> >>])
    /\ food_position = None
    /\ step_direction = None

\* C13: whenever the loop polls, before the first arrow key or while
\* Playing, a 'q' or Ctrl+C can be read, and reading it ends the process with
\* no snake step, no food placement and no timer change; nothing happens
\* after the end; and the exit status is 0 after a quit and after a game over.
C13_QuitTerminates ==
    [][/\ pc = "poll" => ENABLED KeyQuit
       /\ KeyQuit =>
            /\ pc' = "exited"
            /\ exit_kind' = "quit"
            /\ UNCHANGED <<snake, food_position, timer, new_head, step_direction>>
       /\ pc = "exited" => UNCHANGED vars
       /\ exit_kind' \in {"quit", "game_over"} => exit_code' = 0
       /\ exit_kind' = "game_over" <=> TickGameOver]_vars

\* The process has ended on Ctrl+C while a snake of two or more segments was
\* playing, with status 0.
C13_Witness ==
    /\ pc = "exited"
    /\ exit_kind = "quit"
    /\ code = Some("Ctrl+c")
    /\ exit_code = 0
    /\ IsSome(snake)
    /\ Len(TheBody) >= 2

\* C14: no step uses the direction opposite to the one the step before it
\* used; between two steps the loop polls once and applies at most one key.
C14_NoReversalBetweenSteps ==
    [][/\ (Tick /\ IsSome(step_direction)) =>
            TheDirection # Reverse(Unwrap(step_direction))
       /\ pc = "poll" => pc' \in {"loop", "exited"}
       /\ (pc = "loop" /\ arrow_press) => (Tick \/ IoError)]_vars

\* Down was pressed while the snake moved Up, and the step after it moved Up.
C14_Witness ==
    /\ pc = "poll"
    /\ IsSome(snake)
    /\ code = Some("Down")
    /\ step_direction = Some("Up")
    /\ Len(TheBody) >= 2
    /\ rows >= 3
    /\ TheBody[2] = <<TheHead[1], TheHead[2] + 1>>

C16_BodyNeverEmpty ==
    /\ IsSome(snake) => Len(TheBody) >= 1
    /\ panic_msg # "The game ended on perfect score"
    /\ exit_kind = "panic" => panic_msg = "cannot sample empty range"

\* main has just placed the first food, calling generate_food with a body of
\* one segment.
C16_Witness ==
    /\ pc = "poll"
    /\ IsSome(snake)
    /\ Len(TheBody) = 1
    /\ new_food_pos = None
    /\ IsSome(food_position)
    /\ panic_msg = ""

\* p is a cell of the c x r board.
InBoard(p, c, r) == 0 <= p[1] /\ p[1] < c /\ 0 <= p[2] /\ p[2] < r

\* C17: the board has at least one column and one row, and every body
\* coordinate and the food coordinate lie on it, in every reachable state.
C17_CoordinatesInBoard ==
    /\ cols >= 1
    /\ rows >= 1
    /\ IsSome(snake) =>
          \A i \in 1..Len(TheBody) : InBoard(TheBody[i], cols, rows)
    /\ IsSome(food_position) => InBoard(Unwrap(food_position), cols, rows)
    /\ IsSome(new_head) => InBoard(Unwrap(new_head), cols, rows)

\* The head has just wrapped from column 0 to the last column, with food on
\* the board.
C17_Witness ==
    /\ pc = "poll"
    /\ IsSome(snake)
    /\ cols >= 3
    /\ TheDirection = "Left"
    /\ Len(TheBody) >= 2
    /\ TheHead[1] = cols - 1
    /\ TheBody[2][1] = 0
    /\ IsSome(food_position)

\* C18: at every input poll after a Playing tick the snake leaves a cell of
\* the board free and there is a food coordinate; there is no food only while
\* no Playing tick has completed (none was taken, or the first one ended the
\* game).
C18_FoodAtEveryPoll ==
    /\ (pc = "poll" /\ IsSome(snake)) =>
          /\ Len(TheBody) < cols * rows
          /\ IsSome(food_position)
    /\ food_position = None =>
          \/ step_direction = None
          \/ exit_kind = "game_over" /\ Len(TheBody) = 1 /\ drawn_snake = <<>>

\* A poll many ticks into the game: the snake has eaten twice and the food
\* is there.
C18_Witness ==
    /\ pc = "poll"
    /\ IsSome(snake)
    /\ Len(TheBody) = 3
    /\ ~grew
    /\ IsSome(new_food_pos)
    /\ food_position = new_food_pos
    /\ cols * rows >= 6

====
